---- MODULE Spec2Model ----
(***************************************************************************)
(* gerald-gateway: the BNPL decision pipeline.                             *)
(*                                                                         *)
(* One task per POST /v1/decision request (app/routers/v1.py).  A task is  *)
(* cut at its awaits: the router's idempotency lookup, the bank fetch, the *)
(* repository's pre-insert lookup, the Decision insert/commit, the Plan    *)
(* flush/commit and each webhook attempt.  Everything between two awaits   *)
(* is one atomic step.  The store is the PostgreSQL database behind the    *)
(* SQLAlchemy models; only committed rows are visible to other tasks.      *)
(*                                                                         *)
(* uuid4() identifiers are modelled by the task number: the Decision, the  *)
(* Plan and the OutboundWebhook created by task t all carry id t.          *)
(* The bank's answer is modelled by the risk signals the feature           *)
(* extraction derives from the transactions it returns.                    *)
(***************************************************************************)
EXTENDS Integers, Sequences, FiniteSets, TLC

(* ------------------------------ bounds --------------------------------- *)
NumTasks == 2
NumRequestIds == 2
MaxNsfCount == 5
MaxTxns == 3
MaxDay == 3

Tasks == 1..NumTasks
Users == {"u1"}
RequestIds == 1..NumRequestIds
Amounts == {0, 20000, 40000}
NsfCounts == 0..MaxNsfCount

(* ------------------------- program constants --------------------------- *)
tier_a_limit == 20000
tier_b_limit == 12000
tier_c_limit == 6000
tier_d_limit == 2000
tier_a_min_score == 75
tier_b_min_score == 55
tier_c_min_score == 35
installments_count == 4
days_between_installments == 14
stop_after_attempt == 6
max_retries == 5
max_score == 100
nsf_penalty == 25
\* Weights and penalties in tenths of a score point (0.5, 0.3, 0.2; 10.0,
\* 15.0, 7.5), so that the score chain stays in the integers.
balance_weight_x10 == 5
income_spend_weight_x10 == 3
nsf_weight_x10 == 2
payback_penalty_x10 == 100
util_penalty_high_risk_x10 == 150
util_penalty_medium_risk_x10 == 75

UtilizationLabels ==
  {"healthy", "medium-risk", "high-risk", "very-high-risk", "critical-risk",
   "unknown"}
PaybackLabels == {"positive", "neutral", "negative"}
Scores == 0..max_score
\* Component scores the feature extraction can give (a sample of 0..100).
ComponentScores == {0, 25, 50, 75, 100}
\* Transactions as calculate_avg_daily_balance reads them: the day and the
\* balance reported, if any (balance_cents is None otherwise).
Days == 1..MaxDay
Balances == {5000, 10000}
BalanceTransactions ==
  [date : Days, has_balance : {TRUE}, balance_cents : Balances]
  \cup [date : Days, has_balance : {FALSE}, balance_cents : {0}]
\* Weights a configuration can be given, in hundredths: the defaults
\* (0.45, 0.35, 0.20; 0.5, 0.3, 0.2) and values around them.
Weights_x100 == {19, 20, 22, 30, 35, 45, 50}
ConfigClasses == {"UtilizationConfig", "RiskWeightsConfig"}
TransactionLists ==
  UNION {[1..n -> BalanceTransactions] : n \in 1..MaxTxns}
\* Totals a Plan can be created for: 1 cent up to the largest tier limit.
PlanTotals == 1..tier_a_limit
\* Amounts around every tier limit, for a call of execute followed alone.
DecideAmounts ==
  {0, 1, 40000} \cup
  {l + d : l \in {tier_a_limit, tier_b_limit, tier_c_limit, tier_d_limit},
           d \in {-1, 0, 1}}

\* v1.py builds ValidateDecisionService without a metrics_port.
metrics_port == FALSE

Outcomes == {"approved", "declined", "error"}
Buckets == {"Tier A", "Tier B", "Tier C", "Tier D", "Deny", "0"}

(* The bank's answers: a failed call, an empty list, or transactions whose *)
(* features give the listed risk signals.                                  *)
BankAnswers ==
  { [kind |-> "fail", final_score |-> 0, utilization_label |-> "unknown",
     payback_label |-> "neutral", nsf_count |-> 0, is_in_cooldown |-> FALSE],
    [kind |-> "empty", final_score |-> 0, utilization_label |-> "unknown",
     payback_label |-> "neutral", nsf_count |-> 0, is_in_cooldown |-> FALSE],
    [kind |-> "txns", final_score |-> 80, utilization_label |-> "healthy",
     payback_label |-> "positive", nsf_count |-> 0, is_in_cooldown |-> FALSE],
    [kind |-> "txns", final_score |-> 80, utilization_label |-> "healthy",
     payback_label |-> "positive", nsf_count |-> 0, is_in_cooldown |-> TRUE] }

VARIABLES
  pc,            \* task -> position in the request handler
  req,           \* task -> the request (user_id, amount, request_id)
  found,         \* task -> Decision row returned by the router's lookup
  risk,          \* task -> risk_score computed by execute (in memory)
  dec,           \* task -> the Decision built by execute (in memory)
  att,           \* task -> WebhookClient._current_attempt_count
  steps,         \* task -> pipeline steps completed, in order
  resp,          \* task -> HTTP response
  webhook_result,\* task -> (success, attempt_count) WebhookClient.send_webhook returned
  posts,         \* task -> the POSTs its dispatch made: how many, any 2xx
  last_url,      \* task -> the URL its latest POST went to
  decisions,     \* bnpl_decision rows
  plans,         \* bnpl_plan rows
  installments,  \* bnpl_installment rows
  webhooks,      \* outbound_webhook rows
  decision_total,
  credit_limit_bucket,
  bank_fetch_failures_total,
  webhook_latency_seconds,
  tier_call,     \* a call of _determine_bnpl_tier: arguments and result
  score_call,    \* a call of the score chain of calculate_risk
  plan_call,     \* a call of Plan.create: total_cents and installments
  decide_call,   \* a call of execute steps 2-3: amount, bank answer, Decision
  balance_call,  \* a call of calculate_avg_daily_balance
  config_call,   \* the construction of a scoring configuration
  wiring         \* how the service and the webhook client were constructed

taskVars == <<pc, req, found, risk, dec, att, steps, resp, webhook_result,
              posts, last_url>>
storeVars == <<decisions, plans, installments, webhooks>>
metricVars == <<decision_total, credit_limit_bucket,
                bank_fetch_failures_total, webhook_latency_seconds>>
callVars == <<tier_call, score_call, plan_call, decide_call, balance_call,
              config_call>>
vars == <<pc, req, found, risk, dec, att, steps, resp, webhook_result, posts,
          last_url, decisions, plans, installments, webhooks,
          decision_total, credit_limit_bucket,
          bank_fetch_failures_total, webhook_latency_seconds,
          tier_call, score_call, plan_call, decide_call, balance_call,
          config_call, wiring>>

NoReq == [user_id |-> "", amount_requested_cents |-> 0, request_id |-> 0]
NoDecision ==
  [id |-> 0, user_id |-> "", amount_requested_cents |-> 0, approved |-> FALSE,
   credit_limit_cents |-> 0, amount_granted_cents |-> 0, score |-> 0,
   plan_id |-> 0, score_band |-> "", error |-> FALSE]
NoRow ==
  [id |-> 0, user_id |-> "", requested_cents |-> 0, approved |-> FALSE,
   credit_limit_cents |-> 0, amount_granted_cents |-> 0, score_numeric |-> 0,
   score_band |-> "", request_id |-> 0]
NoRisk ==
  [error |-> FALSE, final_score |-> 0, limit_bucket |-> "", limit_amount |-> 0]
NoResp ==
  [status |-> 0, approved |-> FALSE, credit_limit_cents |-> 0,
   amount_granted_cents |-> 0, plan_id |-> 0]
NoResult == [success |-> FALSE, attempt_count |-> 0]
NoPosts == [count |-> 0, got_2xx |-> FALSE]

Min(a, b) == IF a <= b THEN a ELSE b

(* ------------------------- domain services ----------------------------- *)
\* Mutant: Tier B is tried before Tier A.
_determine_bnpl_tier_b_first(final_score, utilization_label, payback_label, nsf_count, is_in_cooldown) ==
  IF is_in_cooldown
    THEN [name |-> "Deny", limit |-> 0]
  ELSE IF final_score >= tier_b_min_score
          /\ payback_label \in {"positive", "neutral"}
    THEN [name |-> "Tier B", limit |-> tier_b_limit]
  ELSE IF final_score >= tier_a_min_score
          /\ utilization_label \in {"healthy", "medium-risk"}
          /\ payback_label \in {"positive", "neutral"}
    THEN [name |-> "Tier A", limit |-> tier_a_limit]
  ELSE IF final_score >= tier_c_min_score
    THEN [name |-> "Tier C", limit |-> tier_c_limit]
  ELSE [name |-> "Tier D", limit |-> tier_d_limit]

_determine_bnpl_tier(final_score, utilization_label, payback_label, nsf_count, is_in_cooldown) ==
  IF is_in_cooldown
    THEN [name |-> "Deny", limit |-> 0]
  ELSE IF final_score >= tier_a_min_score
          /\ utilization_label \in {"healthy", "medium-risk"}
          /\ payback_label \in {"positive", "neutral"}
    THEN [name |-> "Tier A", limit |-> tier_a_limit]
  ELSE IF final_score >= tier_b_min_score
          /\ payback_label \in {"positive", "neutral"}
    THEN [name |-> "Tier B", limit |-> tier_b_limit]
  ELSE IF final_score >= tier_c_min_score
    THEN [name |-> "Tier C", limit |-> tier_c_limit]
  ELSE [name |-> "Tier D", limit |-> tier_d_limit]

calculate_risk(bank) ==
  IF bank.kind = "empty"
    THEN [error |-> TRUE, final_score |-> 0, limit_bucket |-> "0",
          limit_amount |-> 0]
    ELSE LET tier == _determine_bnpl_tier(bank.final_score,
                       bank.utilization_label, bank.payback_label,
                       bank.nsf_count, bank.is_in_cooldown)
         IN [error |-> FALSE, final_score |-> bank.final_score,
             limit_bucket |-> tier.name, limit_amount |-> tier.limit]

\* BasicsFeatures.clamp
clamp(x, lo, hi) == IF x < lo THEN lo ELSE IF x > hi THEN hi ELSE x

\* Mutant: the NSF score grows with the number of NSF events.
calculate_nsf_score_rising(nsf_count, penalty) ==
  clamp(nsf_count * penalty, 0, max_score)

\* BasicsFeatures.calculate_nsf_score
calculate_nsf_score(nsf_count, penalty) ==
  clamp(max_score - nsf_count * penalty, 0, max_score)

\* BasicsFeatures.calculate_final_score, in tenths of a point
calculate_final_score_x10(balance_score, income_spend_score, nsf_score, utilization_penalty_x10) ==
  clamp(balance_score * balance_weight_x10
          + income_spend_score * income_spend_weight_x10
          + nsf_score * nsf_weight_x10 - utilization_penalty_x10,
        0, 10 * max_score)

\* calculate_risk, from the component scores to final_score (in tenths):
\* nsf score, utilization penalty, base score, payback penalty, clamp.
final_score_x10(balance_score, income_spend_score, nsf_count, utilization_label, payback_label) ==
  LET nsf_score == calculate_nsf_score(nsf_count, nsf_penalty)
      utilization_penalty ==
        IF utilization_label \in {"high-risk", "very-high-risk", "critical-risk"}
          THEN util_penalty_high_risk_x10
        ELSE IF utilization_label = "medium-risk"
          THEN util_penalty_medium_risk_x10
        ELSE 0
      base_score == calculate_final_score_x10(balance_score,
                      income_spend_score, nsf_score, utilization_penalty)
      payback_penalty ==
        IF payback_label = "negative" THEN payback_penalty_x10 ELSE 0
  IN clamp(base_score - payback_penalty, 0, 10 * max_score)

\* calculate_risk, from the component scores to the tier: final_score >= a
\* whole threshold exactly when its tenths, divided by 10, are.
tier_of_features(balance_score, income_spend_score, nsf_count, utilization_label, payback_label, is_in_cooldown) ==
  _determine_bnpl_tier(
    final_score_x10(balance_score, income_spend_score, nsf_count,
                    utilization_label, payback_label) \div 10,
    utilization_label, payback_label, nsf_count, is_in_cooldown)

\* Normalization.normalize_and_sort_trxns: sorted(transactions, key=date),
\* a stable sort: a transaction goes after those of its day already placed.
InsertByDate(sorted, x) ==
  LET k == Cardinality({i \in 1..Len(sorted) : sorted[i].date <= x.date})
  IN SubSeq(sorted, 1, k) \o <<x>> \o SubSeq(sorted, k + 1, Len(sorted))

RECURSIVE normalize_and_sort_trxns(_)
normalize_and_sort_trxns(transactions) ==
  IF transactions = <<>> THEN <<>>
  ELSE InsertByDate(
         normalize_and_sort_trxns(SubSeq(transactions, 1, Len(transactions) - 1)),
         transactions[Len(transactions)])

\* The loop of fill_days_with_carry_forward from transaction i on.
RECURSIVE FillDays(_, _, _, _)
FillDays(transactions, i, day_last_balance, last_known_balance) ==
  IF i > Len(transactions) THEN day_last_balance
  ELSE LET t == transactions[i]
           rolling == IF t.has_balance THEN t.balance_cents
                      ELSE last_known_balance
           recorded ==
             IF t.date \in DOMAIN day_last_balance THEN day_last_balance
             ELSE [d \in DOMAIN day_last_balance \cup {t.date} |->
                     IF d = t.date
                       THEN IF t.has_balance THEN t.balance_cents ELSE rolling
                       ELSE day_last_balance[d]]
       IN FillDays(transactions, i + 1, recorded, rolling)

\* BasicsFeatures.fill_days_with_carry_forward: day -> the balance recorded
\* for it, which is the first of the day.
fill_days_with_carry_forward(transactions) ==
  FillDays(transactions, 1, [d \in {} |-> 0], 0)

\* Mutant: a day without transactions counts as 0.
gap_day_balance_zero(last_known) == 0

\* daily_balances.append(last_known if last_known is not None else 0): the
\* first day of the range always has a transaction, so last_known is set
\* on every day without one.
gap_day_balance(last_known) == last_known

\* The loop of calculate_avg_daily_balance from day d on.
RECURSIVE DailyBalancesFrom(_, _, _, _)
DailyBalancesFrom(day_last_balance, d, end, last_known) ==
  IF d > end THEN <<>>
  ELSE LET reported == d \in DOMAIN day_last_balance
           balance == IF reported THEN day_last_balance[d]
                      ELSE gap_day_balance(last_known)
       IN <<balance>> \o
          DailyBalancesFrom(day_last_balance, d + 1, end,
                            IF reported THEN day_last_balance[d] ELSE last_known)

\* BasicsFeatures.calculate_avg_daily_balance, up to the list it averages:
\* one balance per day from the first to the last day with a transaction.
calculate_avg_daily_balance(transactions) ==
  LET trxns == normalize_and_sort_trxns(transactions)
      day_last_balance == fill_days_with_carry_forward(trxns)
      start == trxns[1].date
      end == trxns[Len(trxns)].date
  IN DailyBalancesFrom(day_last_balance, start, end, 0)

\* Weights in hundredths, so that the sum and its tolerance are integers.
Abs(x) == IF x < 0 THEN -x ELSE x
TotalWeight_x100(weights) == weights[1] + weights[2] + weights[3]

\* utilizations.UtilizationConfig.__init__: whether it raises
\* ValueError("Weights must sum to 1.0"): abs(total_weight - 1.0) > 0.01.
UtilizationConfig_raises(weights) == Abs(TotalWeight_x100(weights) - 100) > 1

\* config.RiskWeightsConfig (a dataclass without __post_init__) and the
\* overrides of RiskCalculationService.__init__: the weights are stored as
\* given, nothing is checked.
RiskWeightsConfig_raises(weights) == FALSE

(* ------------------------------ entities ------------------------------- *)
\* Mutant: a new Decision starts with the requested amount granted.
Decision_create_granted(id, user_id, amount_requested_cents) ==
  [id |-> id, user_id |-> user_id,
   amount_requested_cents |-> amount_requested_cents, approved |-> FALSE,
   credit_limit_cents |-> 0, amount_granted_cents |-> amount_requested_cents,
   score |-> 0, plan_id |-> 0, score_band |-> "", error |-> FALSE]

Decision_create(id, user_id, amount_requested_cents) ==
  [id |-> id, user_id |-> user_id,
   amount_requested_cents |-> amount_requested_cents, approved |-> FALSE,
   credit_limit_cents |-> 0, amount_granted_cents |-> 0, score |-> 0,
   plan_id |-> 0, score_band |-> "", error |-> FALSE]

\* Mutant: every installment is the base amount; the remainder is dropped.
Plan_create_installments_no_remainder(plan_id, total_cents) ==
  { [plan_id |-> plan_id, idx |-> i,
     due_in_days |-> i * days_between_installments,
     amount_cents |-> total_cents \div installments_count,
     status |-> "pending"] : i \in 1..installments_count }

\* The installments Plan.create builds for a plan of total_cents.
Plan_create_installments(plan_id, total_cents) ==
  LET base_amount == total_cents \div installments_count
      remainder == total_cents % installments_count
  IN { [plan_id |-> plan_id, idx |-> i,
        due_in_days |-> i * days_between_installments,
        amount_cents |-> IF i = installments_count
                           THEN base_amount + remainder ELSE base_amount,
        status |-> "pending"] : i \in 1..installments_count }

Plan_create(id, decision_id, user_id, total_cents) ==
  [id |-> id, decision_id |-> decision_id, user_id |-> user_id,
   total_cents |-> total_cents]

(* --------------------- ValidateDecisionService.execute ----------------- *)
\* Mutant: the limit itself is refused (< for <=).
IsApproved_strict(amount_requested_cents, risk_score) ==
  IF risk_score.error
    THEN FALSE
    ELSE amount_requested_cents > 0
         /\ amount_requested_cents < risk_score.limit_amount

IsApproved(amount_requested_cents, risk_score) ==
  IF risk_score.error
    THEN FALSE
    ELSE amount_requested_cents > 0
         /\ amount_requested_cents <= risk_score.limit_amount

AmountGranted(amount_requested_cents, risk_score) ==
  Min(amount_requested_cents, risk_score.limit_amount)

\* Steps 2-3 of execute: the Decision (and the id of its Plan) built from
\* the request and the risk score.
BuildDecision(t, r, risk_score) ==
  LET approved == IsApproved(r.amount_requested_cents, risk_score)
      d == [Decision_create(t, r.user_id, r.amount_requested_cents)
              EXCEPT !.score = IF risk_score.error THEN 0
                               ELSE risk_score.final_score,
                     !.score_band = risk_score.limit_bucket,
                     !.error = risk_score.error]
  IN IF approved
       THEN [d EXCEPT !.approved = TRUE,
                      !.plan_id = t,
                      !.amount_granted_cents =
                         AmountGranted(r.amount_requested_cents, risk_score),
                      !.credit_limit_cents = risk_score.limit_amount]
       ELSE d

MetricOutcome(d) ==
  IF d.error THEN "error" ELSE IF d.approved THEN "approved" ELSE "declined"

(* ---------------------------- repositories ----------------------------- *)
\* SELECT ... WHERE risk_factors->>'_request_id' = request_id
get_decision_by_request_id(request_id) ==
  {d \in decisions : d.request_id = request_id}

\* Mutant: from_domain as in the older models/desicions.py, which does not
\* store the request id.
DecisionModel_from_domain_legacy(d, request_id) ==
  [id |-> d.id, user_id |-> d.user_id,
   requested_cents |-> d.amount_requested_cents, approved |-> d.approved,
   credit_limit_cents |-> d.credit_limit_cents,
   amount_granted_cents |-> d.amount_granted_cents,
   score_numeric |-> d.score, score_band |-> d.score_band,
   request_id |-> 0]

DecisionModel_from_domain(d, request_id) ==
  [id |-> d.id, user_id |-> d.user_id,
   requested_cents |-> d.amount_requested_cents, approved |-> d.approved,
   credit_limit_cents |-> d.credit_limit_cents,
   amount_granted_cents |-> d.amount_granted_cents,
   score_numeric |-> d.score, score_band |-> d.score_band,
   request_id |-> request_id]

\* Mutant: no foreign key on bnpl_plan.decision_id.
ForeignKeyOk_unchecked(decision_id) == TRUE

\* bnpl_plan.decision_id REFERENCES bnpl_decision.id
ForeignKeyOk(decision_id) ==
  \E d \in decisions : d.id = decision_id

\* SELECT PlanModel WHERE decision_id = ...; scalar_one_or_none, then .id
PlanIdOfDecision(decision_id) ==
  LET ps == {p \in plans : p.decision_id = decision_id}
  IN IF ps = {} THEN 0 ELSE (CHOOSE p \in ps : TRUE).id

(* ------------------------------- router ------------------------------- *)
\* Mutant: the router does not return early on a stored Decision.
RouterBranch_no_replay(m) ==
  IF Cardinality(m) > 1 THEN "raise" ELSE "execute"

\* existing_decision = await get_decision_by_request_id(request_id)
\* (scalar_one_or_none); if existing_decision: return DecisionResponse(...)
RouterBranch(m) ==
  IF Cardinality(m) > 1 THEN "raise"
  ELSE IF Cardinality(m) = 1 THEN "replay"
  ELSE "execute"

\* Mutant: an except branch that forgets the counter.
BankFailureCount_forgotten(n) == n

\* bank_fetch_failures_total.inc() in each except branch of
\* BankClient.fetch_transactions
BankFailureCount(n) == n + 1

(* ------------------------------ responses ------------------------------ *)
DecisionResponse(approved, credit_limit_cents, amount_granted_cents, plan_id) ==
  [status |-> 200, approved |-> approved,
   credit_limit_cents |-> credit_limit_cents,
   amount_granted_cents |-> amount_granted_cents, plan_id |-> plan_id]

ErrorResponse(status) == [NoResp EXCEPT !.status = status]

\* except BankAPIError -> 503; any other exception leaves the router
HttpStatusFor(exception) ==
  IF exception = "BankAPIError" THEN 503 ELSE 500

\* Mutant: a failed webhook fails the request.
ResponseAfterWebhook_strict(d, webhook_success) ==
  IF webhook_success
    THEN DecisionResponse(d.approved, d.credit_limit_cents,
                          d.amount_granted_cents, d.plan_id)
    ELSE ErrorResponse(500)

\* execute returns the Decision whatever send_webhook returned.
ResponseAfterWebhook(d, webhook_success) ==
  DecisionResponse(d.approved, d.credit_limit_cents,
                   d.amount_granted_cents, d.plan_id)

(* -------------------------------- Init --------------------------------- *)
InitProgram ==
  /\ pc = [t \in Tasks |-> "idle"]
  /\ req = [t \in Tasks |-> NoReq]
  /\ found = [t \in Tasks |-> NoRow]
  /\ risk = [t \in Tasks |-> NoRisk]
  /\ dec = [t \in Tasks |-> NoDecision]
  /\ att = [t \in Tasks |-> 0]
  /\ steps = [t \in Tasks |-> <<>>]
  /\ resp = [t \in Tasks |-> NoResp]
  /\ webhook_result = [t \in Tasks |-> NoResult]
  /\ posts = [t \in Tasks |-> NoPosts]
  /\ last_url = [t \in Tasks |-> ""]
  /\ decisions = {}
  /\ plans = {}
  /\ installments = {}
  /\ webhooks = {}
  /\ decision_total = [o \in Outcomes |-> 0]
  /\ credit_limit_bucket = [b \in Buckets |-> 0]
  /\ bank_fetch_failures_total = 0
  /\ webhook_latency_seconds = 0

\* No call of a domain function is being followed.
NoTier == [name |-> "", limit |-> 0]
NoTierCall ==
  [state |-> "idle", final_score |-> 0, utilization_label |-> "",
   payback_label |-> "", nsf_count |-> 0, is_in_cooldown |-> FALSE,
   result |-> NoTier]
NoScoreCall ==
  [state |-> "idle", balance_score |-> 0, income_spend_score |-> 0,
   nsf_count |-> 0, utilization_label |-> "", payback_label |-> "",
   is_in_cooldown |-> FALSE, final_score_x10 |-> 0, result |-> NoTier]
NoPlanCall == [state |-> "idle", total_cents |-> 0, installments |-> {}]
NoDecideCall ==
  [state |-> "idle", amount_requested_cents |-> 0, risk_score |-> NoRisk,
   decision |-> NoDecision, plan_total_cents |-> 0, installments |-> {}]
NoBalanceCall ==
  [state |-> "idle", transactions |-> <<>>, daily_balances |-> <<>>]
NoConfigCall ==
  [state |-> "idle", class |-> "", weights |-> <<0, 0, 0>>, raised |-> FALSE]

\* v1.py: ValidateDecisionService(...) without a metrics_port and
\* WebhookClient(base_url=ledger_url) with the default max_retries.
RouterWiring == [metrics_port |-> metrics_port, max_retries |-> max_retries]

Init ==
  /\ InitProgram
  /\ tier_call = NoTierCall
  /\ score_call = NoScoreCall
  /\ plan_call = NoPlanCall
  /\ decide_call = NoDecideCall
  /\ balance_call = NoBalanceCall
  /\ config_call = NoConfigCall
  /\ wiring = RouterWiring

(* ------------------------------- actions ------------------------------- *)
\* Task numbers and request ids are opaque names compared only for
\* equality, so requests are numbered in arrival order and a request id
\* not seen before is always the next unused one.
MaxOf(S) == IF S = {} THEN 0 ELSE CHOOSE m \in S : \A x \in S : x <= m
SeenRequestIds == {req[t].request_id : t \in Tasks}

\* The handler returns (or raises): the response goes out and the locals
\* of the request die with it.
Finish(t, response) ==
  /\ resp' = [resp EXCEPT ![t] = response]
  /\ pc' = [pc EXCEPT ![t] = "done"]
  /\ found' = [found EXCEPT ![t] = NoRow]
  /\ risk' = [risk EXCEPT ![t] = NoRisk]
  /\ dec' = [dec EXCEPT ![t] = NoDecision]
  /\ att' = [att EXCEPT ![t] = 0]

\* The handler goes on to its next await.
Goto(t, label) ==
  /\ pc' = [pc EXCEPT ![t] = label]
  /\ UNCHANGED resp

\* A POST /v1/decision arrives: payload and X-Request-ID header.
Start(t, user_id, amount, request_id) ==
  /\ pc[t] = "idle"
  /\ \A s \in Tasks : s < t => pc[s] # "idle"
  /\ request_id <= MaxOf(SeenRequestIds) + 1
  /\ req' = [req EXCEPT ![t] = [user_id |-> user_id,
                                amount_requested_cents |-> amount,
                                request_id |-> request_id]]
  /\ Goto(t, "router_lookup")
  /\ UNCHANGED <<found, risk, dec, att, steps, webhook_result, posts,
                 last_url>>
  /\ UNCHANGED <<callVars, wiring>>
  /\ UNCHANGED storeVars
  /\ UNCHANGED metricVars

\* Router: await decision_repo.get_decision_by_request_id(request_id).
RouterLookup(t) ==
  /\ pc[t] = "router_lookup"
  /\ LET m == get_decision_by_request_id(req[t].request_id)
         branch == RouterBranch(m)
     IN /\ steps' = [steps EXCEPT ![t] =
                       IF Cardinality(m) = 1 THEN <<"replay">> ELSE @]
        /\ IF branch = "raise"
             THEN Finish(t, ErrorResponse(HttpStatusFor("MultipleResultsFound")))
           ELSE IF branch = "replay"
             THEN LET existing == CHOOSE d \in m : TRUE
                  IN IF existing.approved
                       THEN /\ found' = [found EXCEPT ![t] = existing]
                            /\ Goto(t, "router_plan_lookup")
                            /\ UNCHANGED <<risk, dec, att>>
                       ELSE Finish(t, DecisionResponse(existing.approved,
                                        existing.credit_limit_cents,
                                        existing.amount_granted_cents, 0))
           ELSE /\ Goto(t, "fetch")
                /\ UNCHANGED <<found, risk, dec, att>>
  /\ UNCHANGED <<req, webhook_result, posts, last_url>>
  /\ UNCHANGED <<callVars, wiring>>
  /\ UNCHANGED storeVars
  /\ UNCHANGED metricVars

\* Router: select PlanModel where decision_id = existing.id, then respond.
RouterPlanLookup(t) ==
  /\ pc[t] = "router_plan_lookup"
  /\ Finish(t, DecisionResponse(found[t].approved,
                  found[t].credit_limit_cents,
                  found[t].amount_granted_cents,
                  PlanIdOfDecision(found[t].id)))
  /\ UNCHANGED <<req, steps, webhook_result, posts, last_url>>
  /\ UNCHANGED <<callVars, wiring>>
  /\ UNCHANGED storeVars
  /\ UNCHANGED metricVars

\* execute steps 1-3 and the metrics: the bank answers, the risk score is
\* computed, the Decision and its Plan are built, metrics are emitted.
FetchAndCompute(t, bank) ==
  /\ pc[t] = "fetch"
  /\ IF bank.kind = "fail"
       THEN /\ bank_fetch_failures_total' =
                 BankFailureCount(bank_fetch_failures_total)
            /\ Finish(t, ErrorResponse(HttpStatusFor("BankAPIError")))
            /\ steps' = [steps EXCEPT ![t] = Append(@, "bank_failed")]
            /\ UNCHANGED <<decision_total, credit_limit_bucket>>
       ELSE LET risk_score == calculate_risk(bank)
                d == BuildDecision(t, req[t], risk_score)
            IN /\ risk' = [risk EXCEPT ![t] = risk_score]
               /\ dec' = [dec EXCEPT ![t] = d]
               /\ steps' = [steps EXCEPT ![t] = @ \o <<"fetch", "compute">>]
               /\ IF wiring.metrics_port
                    THEN /\ decision_total' =
                              [decision_total EXCEPT ![MetricOutcome(d)] = @ + 1]
                         /\ credit_limit_bucket' =
                              [credit_limit_bucket
                                 EXCEPT ![risk_score.limit_bucket] = @ + 1]
                    ELSE UNCHANGED <<decision_total, credit_limit_bucket>>
               /\ Goto(t, "save_decision_lookup")
               /\ UNCHANGED <<found, att, bank_fetch_failures_total>>
  /\ UNCHANGED <<req, webhook_result, posts, last_url,
                 webhook_latency_seconds>>
  /\ UNCHANGED <<callVars, wiring>>
  /\ UNCHANGED storeVars

\* Where execute goes once save_decision has returned: on to save_plan when
\* approved, else back to the router with its own Decision.
AfterSaveDecision(t) ==
  IF dec[t].approved
    THEN /\ Goto(t, "save_plan")
         /\ UNCHANGED <<found, risk, dec, att>>
    ELSE Finish(t, DecisionResponse(dec[t].approved,
                     dec[t].credit_limit_cents,
                     dec[t].amount_granted_cents, dec[t].plan_id))

\* save_decision: existing = await get_decision_by_request_id(request_id);
\* if existing: return existing (execute drops the returned value).
SaveDecisionLookup(t) ==
  /\ pc[t] = "save_decision_lookup"
  /\ LET m == get_decision_by_request_id(req[t].request_id)
     IN IF Cardinality(m) > 1
          THEN /\ Finish(t, ErrorResponse(HttpStatusFor("MultipleResultsFound")))
               /\ UNCHANGED steps
        ELSE IF Cardinality(m) = 1
          THEN /\ steps' = [steps EXCEPT ![t] = Append(@, "duplicate")]
               /\ AfterSaveDecision(t)
        ELSE /\ Goto(t, "save_decision_insert")
             /\ UNCHANGED <<found, risk, dec, att, steps>>
  /\ UNCHANGED <<req, webhook_result, posts, last_url>>
  /\ UNCHANGED <<callVars, wiring>>
  /\ UNCHANGED storeVars
  /\ UNCHANGED metricVars

\* save_decision: db.add(decision_model); await db.commit().
SaveDecisionInsert(t, db_ok) ==
  /\ pc[t] = "save_decision_insert"
  /\ IF db_ok
       THEN /\ decisions' = decisions \cup
                   {DecisionModel_from_domain(dec[t], req[t].request_id)}
            /\ steps' = [steps EXCEPT ![t] = Append(@, "persist_decision")]
            /\ AfterSaveDecision(t)
       ELSE /\ Finish(t, ErrorResponse(HttpStatusFor("SQLAlchemyError")))
            /\ UNCHANGED <<decisions, steps>>
  /\ UNCHANGED <<req, webhook_result, posts, last_url>>
  /\ UNCHANGED <<callVars, wiring>>
  /\ UNCHANGED <<plans, installments, webhooks>>
  /\ UNCHANGED metricVars

\* What the database can do to save_plan: nothing, or fail its flush (the
\* INSERT of the plan), its commit, or the refresh that follows the commit.
SavePlanResults == {"ok", "flush_fails", "commit_fails", "refresh_fails"}

\* save_plan's transaction is committed once db.commit() has returned.
save_plan_commits(db_result, fk_ok) ==
  fk_ok /\ db_result \in {"ok", "refresh_fails"}

\* Mutant: the flush makes the plan visible on its own.
save_plan_plan_rows_flushed(db_result, fk_ok, plan) ==
  IF fk_ok /\ db_result # "flush_fails" THEN {plan} ELSE {}

\* The bnpl_plan rows save_plan leaves in the store: the plan is added and
\* flushed inside the transaction that db.commit() ends.
save_plan_plan_rows(db_result, fk_ok, plan) ==
  IF save_plan_commits(db_result, fk_ok) THEN {plan} ELSE {}

\* The bnpl_installment rows save_plan leaves in the store: added after the
\* flush, written by the same commit.
save_plan_installment_rows(db_result, fk_ok, rows) ==
  IF save_plan_commits(db_result, fk_ok) THEN rows ELSE {}

\* save_plan: add plan, flush, add installments, commit - one transaction -
\* then refresh.  The foreign key is checked by the flush.  An exception
\* leaves save_plan, execute and the router.
SavePlan(t, db_result) ==
  /\ pc[t] = "save_plan"
  /\ LET fk_ok == ForeignKeyOk(dec[t].id)
         committed == save_plan_commits(db_result, fk_ok)
     IN /\ plans' = plans \cup
              save_plan_plan_rows(db_result, fk_ok,
                Plan_create(dec[t].plan_id, dec[t].id, dec[t].user_id,
                            dec[t].amount_granted_cents))
        /\ installments' = installments \cup
              save_plan_installment_rows(db_result, fk_ok,
                Plan_create_installments(dec[t].plan_id,
                                         dec[t].amount_granted_cents))
        /\ IF committed /\ db_result = "ok"
             THEN /\ steps' = [steps EXCEPT ![t] = Append(@, "persist_plan")]
                  /\ Goto(t, "webhook")
                  /\ UNCHANGED <<found, risk, dec, att>>
             ELSE /\ steps' = [steps EXCEPT ![t] =
                                IF committed
                                  THEN @ \o <<"persist_plan",
                                              "save_plan_refresh_failed">>
                                  ELSE Append(@, "save_plan_failed")]
                  /\ Finish(t, ErrorResponse(HttpStatusFor("SQLAlchemyError")))
  /\ UNCHANGED <<req, webhook_result, posts, last_url>>
  /\ UNCHANGED <<callVars, wiring>>
  /\ UNCHANGED <<decisions, webhooks>>
  /\ UNCHANGED metricVars

\* WebhookService.send_webhook: target_url=f"{self.target_url}/mock-ledger",
\* the URL the new record is created with.
captured_target_url == "ledger/mock-ledger"
\* Another endpoint, which an operator can write into a stored row.
redirect_target_url == "standby/mock-ledger"
TargetUrls == {captured_target_url, redirect_target_url}

\* The URL an attempt POSTs to.  _send_with_retry refreshes the record from
\* the database and reads its target_url.  On the first attempt the record
\* was only added to the session (autoflush off, no flush): refresh raises
\* for an instance that is not persistent, the exception is logged, and the
\* record still holds the URL it was created with.  From the second
\* attempt on _record_attempt has committed the row and refresh loads the
\* stored target_url.
refreshed_target_url(t) ==
  LET stored == {w \in webhooks : w.id = t}
  IN IF stored = {} THEN captured_target_url
     ELSE (CHOOSE w \in stored : TRUE).target_url

\* The outbound_webhook row as _record_attempt commits it.
WebhookRow(t, attempt_number, success) ==
  [id |-> t, event_type |-> "BNPL_APPROVED", plan_id |-> dec[t].plan_id,
   decision_id |-> dec[t].id, request_id |-> req[t].request_id,
   target_url |-> refreshed_target_url(t),
   status |-> IF success THEN "success" ELSE "failed",
   attempts |-> attempt_number]

\* What one POST can do: answer 2xx, answer another status, or raise a
\* timeout or transport error.
WebhookOutcomes == {"2xx", "non2xx", "error"}
\* The outcomes drawn when requests run concurrently.  A timeout or
\* transport error differs from a non-2xx answer only in the number of
\* latency samples, which no request reads; it is drawn when requests are
\* served one at a time (NextSeq).
ConcurrentWebhookOutcomes == {"2xx", "non2xx"}

\* Mutant: any response counts as delivered.
is_success_any_response(outcome) == outcome # "error"

\* is_success = 200 <= response.status_code < 300
is_success(outcome) == outcome = "2xx"

\* webhook_latency_seconds.observe per attempt: once after the response or
\* in the timeout/transport handler; a non-2xx response is observed after
\* the response and again in the HTTPStatusError handler that
\* raise_for_status enters.
LatencyObservations(outcome) == IF outcome = "non2xx" THEN 2 ELSE 1

\* Mutant: the limit counts retries, not attempts.
RetryStops_after_retries(attempt_number) ==
  attempt_number > stop_after_attempt

\* stop=stop_after_attempt(6): tenacity gives up once this many attempts
\* were made.
RetryStops(attempt_number) == attempt_number >= stop_after_attempt

\* Mutant: a success reports the retries that preceded it.
WebhookClient_send_webhook_counts_retries(success, current_attempt_count) ==
  [success |-> success,
   attempt_count |-> IF success THEN current_attempt_count - 1
                     ELSE IF current_attempt_count > 0
                       THEN current_attempt_count ELSE 1]

\* WebhookClient.send_webhook returns (True, attempt_count) from
\* _send_with_retry, or, the last exception re-raised by tenacity being
\* caught by except Exception, (False, _current_attempt_count or 1).
WebhookClient_send_webhook(success, current_attempt_count) ==
  [success |-> success,
   attempt_count |-> IF success \/ current_attempt_count > 0
                       THEN current_attempt_count ELSE 1]

\* Mutant: the service's final update goes through and counts once more.
WebhookService_final_update_counts(row, success, attempt_count) ==
  [row EXCEPT !.attempts = @ + 1,
              !.status = IF success THEN "success" ELSE "failed"]

\* WebhookService.send_webhook after the loop: update_attempt is called with
\* attempt_count=, a keyword it does not take; the TypeError is caught, the
\* session rolled back and the row stays as _record_attempt committed it.
WebhookService_final_update(row, success, attempt_count) == row

\* One pass of the tenacity loop: POST, observe latency, _record_attempt
\* (commit); stop on 2xx or after stop_after_attempt attempts, and then
\* return through WebhookService.send_webhook and execute to the router.
WebhookAttempt(t, outcome) ==
  /\ pc[t] = "webhook"
  /\ LET attempt_number == att[t] + 1
         success == is_success(outcome)
         recorded == WebhookRow(t, attempt_number, success)
         returned == WebhookClient_send_webhook(success, attempt_number)
     IN /\ webhook_latency_seconds' =
             webhook_latency_seconds + LatencyObservations(outcome)
        /\ steps' = [steps EXCEPT ![t] =
                       IF attempt_number = 1 THEN Append(@, "dispatch") ELSE @]
        /\ posts' = [posts EXCEPT ![t] =
                       [count |-> @.count + 1,
                        got_2xx |-> @.got_2xx \/ outcome = "2xx"]]
        /\ last_url' = [last_url EXCEPT ![t] = refreshed_target_url(t)]
        /\ IF success \/ RetryStops(attempt_number)
             THEN /\ webhooks' = {w \in webhooks : w.id # t} \cup
                       {WebhookService_final_update(recorded,
                          returned.success, returned.attempt_count)}
                  /\ webhook_result' = [webhook_result EXCEPT ![t] = returned]
                  /\ Finish(t, ResponseAfterWebhook(dec[t], returned.success))
             ELSE /\ webhooks' = {w \in webhooks : w.id # t} \cup {recorded}
                  /\ att' = [att EXCEPT ![t] = attempt_number]
                  /\ Goto(t, "webhook")
                  /\ UNCHANGED <<found, risk, dec, webhook_result>>
  /\ UNCHANGED req
  /\ UNCHANGED <<callVars, wiring>>
  /\ UNCHANGED <<decisions, plans, installments>>
  /\ UNCHANGED <<decision_total, credit_limit_bucket,
                 bank_fetch_failures_total>>

Next ==
  \/ \E t \in Tasks, u \in Users, a \in Amounts, r \in RequestIds :
       Start(t, u, a, r)
  \/ \E t \in Tasks : RouterLookup(t)
  \/ \E t \in Tasks : RouterPlanLookup(t)
  \/ \E t \in Tasks, bank \in BankAnswers : FetchAndCompute(t, bank)
  \/ \E t \in Tasks : SaveDecisionLookup(t)
  \/ \E t \in Tasks, db_ok \in BOOLEAN : SaveDecisionInsert(t, db_ok)
  \/ \E t \in Tasks, db_result \in SavePlanResults : SavePlan(t, db_result)
  \/ \E t \in Tasks, outcome \in ConcurrentWebhookOutcomes :
       WebhookAttempt(t, outcome)

Spec == Init /\ [][Next]_vars

(* Requests served one at a time: a request arrives only when no other    *)
(* request is in flight.                                                   *)
StartSeq(t, user_id, amount, request_id) ==
  /\ \A s \in Tasks : pc[s] \in {"idle", "done", "cancelled"}
  /\ Start(t, user_id, amount, request_id)

NextSeq ==
  \/ \E t \in Tasks, u \in Users, a \in Amounts, r \in RequestIds :
       StartSeq(t, u, a, r)
  \/ \E t \in Tasks : RouterLookup(t)
  \/ \E t \in Tasks : RouterPlanLookup(t)
  \/ \E t \in Tasks, bank \in BankAnswers : FetchAndCompute(t, bank)
  \/ \E t \in Tasks : SaveDecisionLookup(t)
  \/ \E t \in Tasks, db_ok \in BOOLEAN : SaveDecisionInsert(t, db_ok)
  \/ \E t \in Tasks, db_result \in SavePlanResults : SavePlan(t, db_result)
  \/ \E t \in Tasks, outcome \in WebhookOutcomes : WebhookAttempt(t, outcome)

SpecSeq == Init /\ [][NextSeq]_vars

(* An operator edits the stored row of a dispatch in flight: UPDATE        *)
(* outbound_webhook SET target_url = ... WHERE id = ...                     *)
OperatorRedirect(t, url) ==
  /\ pc[t] = "webhook"
  /\ \E w \in webhooks :
       /\ w.id = t
       /\ w.target_url # url
       /\ webhooks' = (webhooks \ {w}) \cup {[w EXCEPT !.target_url = url]}
  /\ UNCHANGED <<decisions, plans, installments>>
  /\ UNCHANGED <<taskVars, metricVars, callVars, wiring>>

NextOps ==
  \/ NextSeq
  \/ \E t \in Tasks, url \in TargetUrls : OperatorRedirect(t, url)

SpecOps == Init /\ [][NextOps]_vars

\* The steps of the handler of request t, from its first await on.
HandlerStep(t) ==
  \/ RouterLookup(t)
  \/ RouterPlanLookup(t)
  \/ \E bank \in BankAnswers : FetchAndCompute(t, bank)
  \/ SaveDecisionLookup(t)
  \/ \E db_ok \in BOOLEAN : SaveDecisionInsert(t, db_ok)
  \/ \E db_result \in SavePlanResults : SavePlan(t, db_result)
  \/ \E outcome \in WebhookOutcomes : WebhookAttempt(t, outcome)

(* Requests of two users, served one at a time: payload.user_id is any     *)
(* user, whatever the X-Request-ID header carries.                         *)
TwoUsers == {"u1", "u2"}

NextUsers ==
  \/ \E t \in Tasks, u \in TwoUsers, a \in Amounts, r \in RequestIds :
       StartSeq(t, u, a, r)
  \/ \E t \in Tasks : HandlerStep(t)

SpecUsers == Init /\ [][NextUsers]_vars

(* The task of a request is cancelled (client gone, server shutting down): *)
(* CancelledError is raised at the await the handler is suspended in.  It  *)
(* is a BaseException: neither execute's except Exception nor tenacity's   *)
(* retry_if_exception_type catches it, and nothing in the handler is       *)
(* shielded or handed to a background task.  The handler's locals die, no  *)
(* response is sent, and what the session had not committed is dropped.    *)
AwaitPoints ==
  {"router_lookup", "router_plan_lookup", "fetch", "save_decision_lookup",
   "save_decision_insert", "save_plan", "webhook"}

Cancel(t) ==
  /\ pc[t] \in AwaitPoints
  /\ pc' = [pc EXCEPT ![t] = "cancelled"]
  /\ found' = [found EXCEPT ![t] = NoRow]
  /\ risk' = [risk EXCEPT ![t] = NoRisk]
  /\ dec' = [dec EXCEPT ![t] = NoDecision]
  /\ att' = [att EXCEPT ![t] = 0]
  /\ UNCHANGED <<req, steps, resp, webhook_result, posts, last_url>>
  /\ UNCHANGED <<storeVars, metricVars, callVars, wiring>>

NextCancel ==
  \/ NextSeq
  \/ \E t \in Tasks : Cancel(t)

\* The event loop resumes every task that can run: a handler that is not
\* cancelled and has a step to take takes it.
SpecCancel ==
  /\ Init
  /\ [][NextCancel]_vars
  /\ \A t \in Tasks : WF_vars(HandlerStep(t))

(* The service and the client constructed as their constructors allow:     *)
(* ValidateDecisionService with or without a metrics_port, WebhookClient   *)
(* with max_retries as the tests pass it or left at its default.  Requests *)
(* are served one at a time.                                               *)
ClientMaxRetries == {2, max_retries}
Wirings == [metrics_port : BOOLEAN, max_retries : ClientMaxRetries]

InitWired ==
  /\ InitProgram
  /\ tier_call = NoTierCall
  /\ score_call = NoScoreCall
  /\ plan_call = NoPlanCall
  /\ decide_call = NoDecideCall
  /\ balance_call = NoBalanceCall
  /\ config_call = NoConfigCall
  /\ wiring \in Wirings

SpecWired == InitWired /\ [][NextSeq]_vars

(* ------------------- the domain functions, followed alone -------------- *)
\* Bank answers that reach every tier, the cooldown and the empty list.
DecideBankAnswers ==
  {[kind |-> "empty", final_score |-> 0, utilization_label |-> "unknown",
    payback_label |-> "neutral", nsf_count |-> 0, is_in_cooldown |-> FALSE]}
  \cup
  {[kind |-> "txns", final_score |-> sc, utilization_label |-> "healthy",
    payback_label |-> "positive", nsf_count |-> 0, is_in_cooldown |-> cd] :
      sc \in {20, 40, 60, 80}, cd \in BOOLEAN}

\* One call is armed with its arguments; the others are not followed.
InitCalls ==
  /\ InitProgram
  /\ wiring = RouterWiring
  /\ \/ /\ tier_call \in
              {[NoTierCall EXCEPT !.state = "armed", !.final_score = sc,
                  !.utilization_label = ul, !.payback_label = pl,
                  !.nsf_count = n, !.is_in_cooldown = cd] :
                 sc \in Scores, ul \in UtilizationLabels, pl \in PaybackLabels,
                 n \in {0, MaxNsfCount}, cd \in BOOLEAN}
        /\ score_call = NoScoreCall
        /\ plan_call = NoPlanCall
        /\ decide_call = NoDecideCall
        /\ balance_call = NoBalanceCall
        /\ config_call = NoConfigCall
     \/ /\ score_call \in
              {[NoScoreCall EXCEPT !.state = "armed", !.balance_score = bs,
                  !.income_spend_score = is, !.nsf_count = n,
                  !.utilization_label = ul, !.payback_label = pl,
                  !.is_in_cooldown = cd] :
                 bs \in ComponentScores, is \in ComponentScores,
                 n \in NsfCounts, ul \in UtilizationLabels,
                 pl \in PaybackLabels, cd \in BOOLEAN}
        /\ tier_call = NoTierCall
        /\ plan_call = NoPlanCall
        /\ decide_call = NoDecideCall
        /\ balance_call = NoBalanceCall
        /\ config_call = NoConfigCall
     \/ /\ plan_call \in
              {[NoPlanCall EXCEPT !.state = "armed", !.total_cents = total] :
                 total \in PlanTotals}
        /\ tier_call = NoTierCall
        /\ score_call = NoScoreCall
        /\ decide_call = NoDecideCall
        /\ balance_call = NoBalanceCall
        /\ config_call = NoConfigCall
     \/ /\ balance_call \in
              {[NoBalanceCall EXCEPT !.state = "armed", !.transactions = txs] :
                 txs \in TransactionLists}
        /\ tier_call = NoTierCall
        /\ score_call = NoScoreCall
        /\ plan_call = NoPlanCall
        /\ decide_call = NoDecideCall
        /\ config_call = NoConfigCall
     \/ /\ config_call \in
              {[NoConfigCall EXCEPT !.state = "armed", !.class = c,
                  !.weights = <<w1, w2, w3>>] :
                 c \in ConfigClasses, w1 \in Weights_x100,
                 w2 \in Weights_x100, w3 \in Weights_x100}
        /\ tier_call = NoTierCall
        /\ score_call = NoScoreCall
        /\ plan_call = NoPlanCall
        /\ decide_call = NoDecideCall
        /\ balance_call = NoBalanceCall
     \/ /\ decide_call \in
              {[NoDecideCall EXCEPT !.state = "armed",
                  !.amount_requested_cents = a,
                  !.risk_score = calculate_risk(bank)] :
                 a \in DecideAmounts, bank \in DecideBankAnswers}
        /\ tier_call = NoTierCall
        /\ score_call = NoScoreCall
        /\ plan_call = NoPlanCall
        /\ balance_call = NoBalanceCall
        /\ config_call = NoConfigCall

\* RiskCalculationService._determine_bnpl_tier(...) returns.
DetermineTier ==
  /\ tier_call.state = "armed"
  /\ tier_call' =
       [tier_call EXCEPT !.state = "returned",
          !.result = _determine_bnpl_tier(tier_call.final_score,
                       tier_call.utilization_label, tier_call.payback_label,
                       tier_call.nsf_count, tier_call.is_in_cooldown)]
  /\ UNCHANGED <<score_call, plan_call, decide_call, balance_call,
                 config_call>>
  /\ UNCHANGED <<taskVars, storeVars, metricVars, wiring>>

\* calculate_risk goes from the component scores to final_score and tier.
ComputeScore ==
  /\ score_call.state = "armed"
  /\ score_call' =
       [score_call EXCEPT !.state = "returned",
          !.final_score_x10 =
             final_score_x10(score_call.balance_score,
               score_call.income_spend_score, score_call.nsf_count,
               score_call.utilization_label, score_call.payback_label),
          !.result =
             tier_of_features(score_call.balance_score,
               score_call.income_spend_score, score_call.nsf_count,
               score_call.utilization_label, score_call.payback_label,
               score_call.is_in_cooldown)]
  /\ UNCHANGED <<tier_call, plan_call, decide_call, balance_call,
                 config_call>>
  /\ UNCHANGED <<taskVars, storeVars, metricVars, wiring>>

\* Plan.create(total_cents=...) returns the plan with its installments.
CreatePlan ==
  /\ plan_call.state = "armed"
  /\ plan_call' =
       [plan_call EXCEPT !.state = "returned",
          !.installments = Plan_create_installments(1, plan_call.total_cents)]
  /\ UNCHANGED <<tier_call, score_call, decide_call, balance_call,
                 config_call>>
  /\ UNCHANGED <<taskVars, storeVars, metricVars, wiring>>

\* execute steps 2-3: approved, the Decision and, when approved, its Plan.
Decide ==
  /\ decide_call.state = "armed"
  /\ LET r == [NoReq EXCEPT !.user_id = "u1",
                 !.amount_requested_cents = decide_call.amount_requested_cents]
         d == BuildDecision(1, r, decide_call.risk_score)
     IN decide_call' =
          [decide_call EXCEPT !.state = "returned", !.decision = d,
             !.plan_total_cents =
                IF d.approved
                  THEN Plan_create(d.plan_id, d.id, d.user_id,
                                   d.amount_granted_cents).total_cents
                  ELSE 0,
             !.installments =
                IF d.approved
                  THEN Plan_create_installments(d.plan_id,
                                                d.amount_granted_cents)
                  ELSE {}]
  /\ UNCHANGED <<tier_call, score_call, plan_call, balance_call,
                 config_call>>
  /\ UNCHANGED <<taskVars, storeVars, metricVars, wiring>>

\* BasicsFeatures.calculate_avg_daily_balance(transactions) has built the
\* list of daily balances it averages.
ComputeDailyBalances ==
  /\ balance_call.state = "armed"
  /\ balance_call' =
       [balance_call EXCEPT !.state = "returned",
          !.daily_balances =
             calculate_avg_daily_balance(balance_call.transactions)]
  /\ UNCHANGED <<tier_call, score_call, plan_call, decide_call, config_call>>
  /\ UNCHANGED <<taskVars, storeVars, metricVars, wiring>>

\* A scoring configuration is constructed with the given weights: the
\* constructor raises or returns the configuration.
ConstructConfig ==
  /\ config_call.state = "armed"
  /\ config_call' =
       [config_call EXCEPT !.state = "returned",
          !.raised = IF config_call.class = "UtilizationConfig"
                       THEN UtilizationConfig_raises(config_call.weights)
                       ELSE RiskWeightsConfig_raises(config_call.weights)]
  /\ UNCHANGED <<tier_call, score_call, plan_call, decide_call, balance_call>>
  /\ UNCHANGED <<taskVars, storeVars, metricVars, wiring>>

NextCalls ==
  \/ DetermineTier
  \/ ComputeScore
  \/ CreatePlan
  \/ Decide
  \/ ComputeDailyBalances
  \/ ConstructConfig

SpecCalls == InitCalls /\ [][NextCalls]_vars

(* ============================ properties =============================== *)
Range(seq) == {seq[i] : i \in 1..Len(seq)}
Did(t, step) == step \in Range(steps[t])
Done(t) == pc[t] = "done"
Quiescent == \A t \in Tasks : pc[t] \in {"idle", "done"}

\* The Decision rows written by requests that carried request id r.
DecisionsFor(r) == {d \in decisions : req[d.id].request_id = r}
PlansOf(d) == {p \in plans : p.decision_id = d.id}
InstallmentsOf(p) == {i \in installments : i.plan_id = p.id}

\* The response body a stored Decision row stands for.
BodyOf(d) ==
  [status |-> 200, approved |-> d.approved,
   credit_limit_cents |-> d.credit_limit_cents,
   amount_granted_cents |-> d.amount_granted_cents,
   plan_id |-> IF PlansOf(d) = {} THEN 0
               ELSE (CHOOSE p \in PlansOf(d) : TRUE).id]

PipelineOrder ==
  <<"fetch", "compute", "persist_decision", "persist_plan", "dispatch">>
PipelineSteps(t) ==
  SelectSeq(steps[t], LAMBDA x : x \in Range(PipelineOrder))
IsPrefix(a, b) == Len(a) <= Len(b) /\ a = SubSeq(b, 1, Len(a))

\* C1 - Sequential idempotence: with requests served one after the other,
\* at most one Decision row is ever written for a request id; once a row
\* exists, every later call with that request id is a replay that answers
\* 200 with the stored approved, credit_limit_cents, amount_granted_cents
\* and plan_id, whatever amount its body carries; and all 200 answers for
\* one request id are equal.
C1_SequentialIdempotence ==
  /\ \A r \in RequestIds : Cardinality(DecisionsFor(r)) <= 1
  /\ \A t \in Tasks :
       (Done(t) /\ \E d \in DecisionsFor(req[t].request_id) : d.id < t)
         => /\ steps[t] = <<"replay">>
            /\ \A d \in DecisionsFor(req[t].request_id) : resp[t] = BodyOf(d)
  /\ \A t1, t2 \in Tasks :
       (Done(t1) /\ Done(t2) /\ req[t1].request_id = req[t2].request_id
          /\ resp[t1].status = 200 /\ resp[t2].status = 200)
         => resp[t1] = resp[t2]

C1_Witness ==
  \E t1, t2 \in Tasks :
    /\ t1 < t2 /\ Done(t1) /\ Done(t2)
    /\ req[t1].request_id = req[t2].request_id
    /\ req[t1].amount_requested_cents # req[t2].amount_requested_cents
    /\ Did(t1, "dispatch") /\ Did(t2, "replay")
    /\ resp[t1].status = 200 /\ resp[t1].approved /\ resp[t1].plan_id = t1
    /\ resp[t2] = resp[t1]

\* C2 - Concurrent duplicates: when every request has finished, the store
\* holds at most one Decision row per request id.
C2_OneDecisionPerRequestId ==
  Quiescent =>
    \A r \in RequestIds :
      Cardinality({d \in decisions : d.request_id = r}) <= 1

\* C3 - At most one webhook dispatch (one OutboundWebhook row, one attempt
\* loop) is started per request id.
C3_OneDispatchPerRequestId ==
  \A r \in RequestIds :
    /\ Cardinality({t \in Tasks : req[t].request_id = r
                                   /\ Did(t, "dispatch")}) <= 1
    /\ Cardinality({w \in webhooks : w.request_id = r}) <= 1

\* C4 - A request whose save_decision finds a Decision already stored for
\* its request id answers 200 with that pre-existing Decision.
C4_DuplicateReturnsExisting ==
  \A t \in Tasks :
    (Done(t) /\ Did(t, "duplicate"))
      => \E d \in decisions :
           /\ d.request_id = req[t].request_id
           /\ d.id # t
           /\ resp[t] = BodyOf(d)

\* C5 - A replay has no side effects: the steps of a request whose router
\* lookup found a stored Decision leave every store row and every metric
\* unchanged, and such a request never fetches, computes, persists or
\* dispatches.
C5_ReplayNoSideEffects ==
  [][\A t \in Tasks :
       ("replay" \in Range(steps'[t]) /\ pc'[t] # pc[t])
         => /\ steps'[t] = <<"replay">>
            /\ decisions' = decisions /\ plans' = plans
            /\ installments' = installments /\ webhooks' = webhooks
            /\ decision_total' = decision_total
            /\ credit_limit_bucket' = credit_limit_bucket
            /\ bank_fetch_failures_total' = bank_fetch_failures_total
            /\ webhook_latency_seconds' = webhook_latency_seconds]_vars

C5_Witness ==
  \E t \in Tasks :
    /\ Done(t) /\ steps[t] = <<"replay">>
    /\ resp[t].status = 200 /\ resp[t].approved /\ resp[t].plan_id # 0

\* C6 - Per-request ordering: the steps a request completes follow the
\* order fetch, compute, persist Decision, persist Plan, dispatch; every
\* Plan row references a committed Decision row; and every webhook that
\* was posted belongs to a committed Plan of a committed Decision.
C6_PipelineOrder ==
  /\ \A t \in Tasks : IsPrefix(PipelineSteps(t), PipelineOrder)
  /\ \A p \in plans : \E d \in decisions : d.id = p.decision_id
  /\ \A w \in webhooks :
       \E p \in plans : /\ p.id = w.plan_id
                         /\ p.decision_id = w.decision_id
                         /\ \E d \in decisions : d.id = p.decision_id
  /\ \A t \in Tasks :
       Did(t, "dispatch") =>
         /\ \E d \in decisions : d.id = t
         /\ \E p \in plans : p.decision_id = t

C6_Witness ==
  \E t \in Tasks : steps[t] = PipelineOrder /\ Done(t)

\* C7 - Bank failure: the step in which the bank fetch fails answers 503,
\* adds exactly 1 to bank_fetch_failures_total, writes no row and leaves
\* decision_total and credit_limit_bucket alone; the request is over.
C7_BankFailure ==
  [][\A t \in Tasks :
       (~Did(t, "bank_failed") /\ "bank_failed" \in Range(steps'[t]))
         => /\ resp'[t].status = 503
            /\ pc'[t] = "done"
            /\ steps'[t] = <<"bank_failed">>
            /\ bank_fetch_failures_total' = bank_fetch_failures_total + 1
            /\ decisions' = decisions /\ plans' = plans
            /\ installments' = installments /\ webhooks' = webhooks
            /\ decision_total' = decision_total
            /\ credit_limit_bucket' = credit_limit_bucket
            /\ \A d \in decisions' : d.id # t]_vars

C7_Witness ==
  \E t \in Tasks :
    /\ Done(t) /\ steps[t] = <<"bank_failed">> /\ resp[t].status = 503
    /\ bank_fetch_failures_total >= 1

\* C8 - Webhook failure never fails or undoes a decision: a request whose
\* every webhook attempt failed answers 200 with the approved Decision,
\* and its Decision, Plan and Installment rows are in the store as built.
C8_WebhookFailureKeepsDecision ==
  \A t \in Tasks :
    (Done(t) /\ \E w \in webhooks : w.id = t /\ w.status = "failed")
      => /\ resp[t].status = 200 /\ resp[t].approved
         /\ resp[t].plan_id = t
         /\ \E d \in decisions :
              /\ d.id = t /\ d.approved
              /\ d.amount_granted_cents = resp[t].amount_granted_cents
              /\ \E p \in plans :
                   /\ p.id = resp[t].plan_id /\ p.decision_id = d.id
                   /\ p.total_cents = d.amount_granted_cents
                   /\ Cardinality(InstallmentsOf(p)) = installments_count

C8_Witness ==
  \E t \in Tasks :
    /\ Done(t) /\ resp[t].status = 200
    /\ \E w \in webhooks :
         w.id = t /\ w.status = "failed" /\ w.attempts = stop_after_attempt

\* C9 - Plan existence: when no request is in flight, every approved
\* Decision row is referenced by exactly one Plan row with exactly
\* installments_count Installment rows, and no declined one by any Plan.
C9_PlanExistence ==
  Quiescent =>
    \A d \in decisions :
      IF d.approved
        THEN /\ Cardinality(PlansOf(d)) = 1
             /\ \A p \in PlansOf(d) :
                  Cardinality(InstallmentsOf(p)) = installments_count
        ELSE PlansOf(d) = {}

RECURSIVE SumAmounts(_)
SumAmounts(S) ==
  IF S = {} THEN 0
  ELSE LET i == CHOOSE x \in S : TRUE
       IN i.amount_cents + SumAmounts(S \ {i})

C12_InstallmentSum ==
  /\ plan_call.state = "returned" =>
       LET total == plan_call.total_cents
           ins == plan_call.installments
       IN /\ Cardinality(ins) = installments_count
          /\ {i.idx : i \in ins} = 1..installments_count
          /\ \A i \in ins :
               i.amount_cents =
                 IF i.idx = installments_count
                   THEN (total \div installments_count)
                          + (total % installments_count)
                   ELSE total \div installments_count
          /\ SumAmounts(ins) = total
  /\ (decide_call.state = "returned" /\ decide_call.decision.approved) =>
       /\ Cardinality(decide_call.installments) = installments_count
       /\ SumAmounts(decide_call.installments) = decide_call.plan_total_cents
       /\ decide_call.plan_total_cents
            = decide_call.decision.amount_granted_cents

C12_Witness ==
  /\ plan_call.state = "returned"
  /\ plan_call.total_cents % installments_count = 3
  /\ plan_call.total_cents < installments_count
  /\ \E i \in plan_call.installments :
       i.idx = installments_count /\ i.amount_cents = plan_call.total_cents

\* The outbound_webhook rows of the dispatch of request t.
WebhookRowsOf(t) == {w \in webhooks : w.id = t}
Dispatched(t) == posts[t].count > 0

\* C13 - Bounded retry and termination: a dispatch never makes more than
\* stop_after_attempt (6) POSTs and is over once it has made that many;
\* when no attempt got a 2xx, exactly 6 POSTs were made and send_webhook
\* returned success = false with attempt_count = 6.
C13_BoundedRetry ==
  \A t \in Tasks :
    /\ posts[t].count <= stop_after_attempt
    /\ pc[t] = "webhook" => posts[t].count < stop_after_attempt
    /\ posts[t].count = stop_after_attempt => Done(t)
    /\ (Done(t) /\ Dispatched(t) /\ ~posts[t].got_2xx)
         => /\ posts[t].count = stop_after_attempt
            /\ webhook_result[t] =
                 [success |-> FALSE, attempt_count |-> stop_after_attempt]

C13_Witness ==
  \E t \in Tasks :
    /\ Done(t) /\ posts[t] = [count |-> stop_after_attempt, got_2xx |-> FALSE]
    /\ ~webhook_result[t].success
    /\ webhook_latency_seconds > stop_after_attempt
    /\ webhook_latency_seconds < 2 * stop_after_attempt

Computes(t) == ~Did(t, "compute") /\ "compute" \in Range(steps'[t])

\* C16 - Empty transactions: the step that computes on an empty
\* transaction list builds a Decision with approved = false,
\* credit_limit_cents = 0 and amount_granted_cents = 0 and adds 1 to
\* decision_total{error} and to credit_limit_bucket{0}; the stored Decision
\* of such a request is declined and has no Plan and no webhook.
C16_EmptyTransactions ==
  [][/\ \A t \in Tasks :
          (Computes(t) /\ risk'[t].error)
            => /\ ~dec'[t].approved
               /\ dec'[t].credit_limit_cents = 0
               /\ dec'[t].amount_granted_cents = 0
               /\ decision_total'["error"] = decision_total["error"] + 1
               /\ credit_limit_bucket'["0"] = credit_limit_bucket["0"] + 1
     /\ \A d \in decisions' :
          d.score_band = "0"
            => /\ ~d.approved
               /\ d.credit_limit_cents = 0 /\ d.amount_granted_cents = 0
               /\ \A p \in plans' : p.decision_id # d.id
               /\ \A w \in webhooks' : w.decision_id # d.id]_vars

\* C17 - Metrics exactly once: the step in which a request that is not a
\* replay computes its Decision adds exactly 1 to decision_total, under
\* error, approved or declined as the Decision is, and exactly 1 to
\* credit_limit_bucket under the tier's bucket; no other step changes them.
C17_MetricsExactlyOnce ==
  [][IF \E t \in Tasks : Computes(t)
       THEN \A t \in Tasks :
              Computes(t)
                => /\ decision_total' =
                        [decision_total
                           EXCEPT ![MetricOutcome(dec'[t])] = @ + 1]
                   /\ credit_limit_bucket' =
                        [credit_limit_bucket
                           EXCEPT ![risk'[t].limit_bucket] = @ + 1]
       ELSE /\ decision_total' = decision_total
            /\ credit_limit_bucket' = credit_limit_bucket]_vars

\* C18 - Cooldown between advances (the requests of one run all arrive
\* within cooldown_hours of each other): once a request of a user has been
\* approved, no later request of that user with another request id is
\* approved; its Decision is in bucket Deny with limit 0.
C18_CooldownBetweenAdvances ==
  \A t1, t2 \in Tasks :
    (/\ t1 < t2
     /\ req[t1].user_id = req[t2].user_id
     /\ req[t1].request_id # req[t2].request_id
     /\ \E d \in decisions : d.id = t1 /\ d.approved)
      => \A d \in decisions :
           d.id = t2 => (/\ ~d.approved
                         /\ d.score_band = "Deny"
                         /\ d.credit_limit_cents = 0)

C20_TierMonotonicity ==
  /\ tier_call.state = "returned" =>
        /\ \A s2 \in Scores :
              s2 >= tier_call.final_score =>
                _determine_bnpl_tier(s2, tier_call.utilization_label,
                    tier_call.payback_label, tier_call.nsf_count,
                    tier_call.is_in_cooldown).limit
                  >= tier_call.result.limit
        /\ \A n2 \in NsfCounts :
              n2 >= tier_call.nsf_count =>
                _determine_bnpl_tier(tier_call.final_score,
                    tier_call.utilization_label, tier_call.payback_label,
                    n2, tier_call.is_in_cooldown).limit
                  <= tier_call.result.limit
  /\ score_call.state = "returned" =>
        \A n2 \in NsfCounts :
          n2 >= score_call.nsf_count =>
            tier_of_features(score_call.balance_score,
                score_call.income_spend_score, n2,
                score_call.utilization_label, score_call.payback_label,
                score_call.is_in_cooldown).limit
              <= score_call.result.limit

\* One more NSF event takes a user out of the tier they were in.
C20_Witness ==
  /\ score_call.state = "returned"
  /\ ~score_call.is_in_cooldown
  /\ score_call.nsf_count < MaxNsfCount
  /\ tier_of_features(score_call.balance_score,
          score_call.income_spend_score, score_call.nsf_count + 1,
          score_call.utilization_label, score_call.payback_label,
          score_call.is_in_cooldown).limit
        < score_call.result.limit

\* The sum of a counter over its labels.
RECURSIVE SumOver(_, _)
SumOver(f, S) ==
  IF S = {} THEN 0
  ELSE LET x == CHOOSE y \in S : TRUE IN f[x] + SumOver(f, S \ {x})

\* Request t computed a Decision and its insert failed.
PersistFailed(t) ==
  /\ Done(t)
  /\ resp[t].status = 500
  /\ Did(t, "compute")
  /\ ~Did(t, "persist_decision")
  /\ ~Did(t, "duplicate")

Posts(t) == posts'[t].count = posts[t].count + 1

\* C22 - Refresh-from-storage: every attempt of a dispatch, the first one
\* and each retry, POSTs to the target_url the stored OutboundWebhook row
\* holds when the attempt starts.
C22_RefreshFromStorage ==
  [][\A t \in Tasks :
       Posts(t) => \E w \in webhooks :
                     w.id = t /\ last_url'[t] = w.target_url]_vars

\* C23 - Webhook row before first attempt: when the first POST of a dispatch
\* is issued, storage already holds its OutboundWebhook row with status
\* pending, attempts = 0 and the target URL captured at dispatch time; and
\* every later POST is backed by a stored row too.
C23_RowBeforeFirstAttempt ==
  [][\A t \in Tasks :
       Posts(t) =>
         \E w \in webhooks :
           /\ w.id = t
           /\ posts[t].count = 0 =>
                 /\ w.status = "pending"
                 /\ w.attempts = 0
                 /\ w.target_url = captured_target_url]_vars

\* The dispatch of request t ran to completion: a 2xx attempt, or all
\* stop_after_attempt attempts made.
DispatchCompleted(t) ==
  posts[t].got_2xx \/ posts[t].count = stop_after_attempt

\* C24 - Cancellation after persistence: if the task of a request is
\* cancelled after its Decision and Plan have been persisted, its webhook
\* dispatch still runs to completion.
C24_CancellationAfterPersistence ==
  \A t \in Tasks :
    (pc[t] = "cancelled" /\ Did(t, "persist_plan")) ~> DispatchCompleted(t)

\* The days on which the call's transactions fall, and the days of its
\* range that have none.
TxnDays == {balance_call.transactions[i].date :
              i \in 1..Len(balance_call.transactions)}
FirstDay == CHOOSE d \in TxnDays : \A e \in TxnDays : d <= e
LastDay == CHOOSE d \in TxnDays : \A e \in TxnDays : e <= d
GapDays == {d \in FirstDay..LastDay : d \notin TxnDays}
\* The last day with transactions before day d.
DayBefore(d) ==
  CHOOSE p \in TxnDays : p < d /\ \A e \in TxnDays : e < d => e <= p
\* The balance the call counted for day d.
CountedFor(d) == balance_call.daily_balances[d - FirstDay + 1]
\* Positions, in the order given, of the transactions of day d, and of
\* those that report a balance.
TxnsOn(d) == {i \in 1..Len(balance_call.transactions) :
                balance_call.transactions[i].date = d}
ReportingOn(d) == {i \in TxnsOn(d) : balance_call.transactions[i].has_balance}
FirstOf(S) == CHOOSE i \in S : \A j \in S : i <= j
LastOf(S) == CHOOSE i \in S : \A j \in S : j <= i

C26_WeightValidity ==
  (/\ config_call.state = "returned"
   /\ Abs(TotalWeight_x100(config_call.weights) - 100) > 1)
    => config_call.raised

\* C27 - Configurable retry limit: a WebhookClient constructed with
\* max_retries = n makes at most n + 1 POSTs for a dispatch, and when all of
\* them fail send_webhook reports failure after exactly n + 1 attempts.
C27_ConfigurableRetryLimit ==
  \A t \in Tasks :
    /\ posts[t].count <= wiring.max_retries + 1
    /\ (Done(t) /\ Dispatched(t) /\ ~posts[t].got_2xx)
         => /\ ~webhook_result[t].success
            /\ webhook_result[t].attempt_count = wiring.max_retries + 1

\* C28 - Replay is scoped to the requesting user: a request is answered
\* with a stored Decision only when that Decision carries both the request's
\* request id and the request's user_id.
C28_ReplayScopedToUser ==
  \A t \in Tasks :
    Did(t, "replay") =>
      \A d \in decisions :
        d.request_id = req[t].request_id => d.user_id = req[t].user_id


\* ---- C29 ----
\* Every visible plan has its installments_count installments, and every
\* visible installment has its plan.
PlanWithAllInstallments ==
  /\ \A p \in plans : Cardinality(InstallmentsOf(p)) = installments_count
  /\ \A i \in installments : \E p \in plans : p.id = i.plan_id

\* The plan rows of request t (its plan id is its own).
PlanRowsOf(t) == {p \in plans : p.id = t}

\* Nothing of the plan of request t is visible.
NoPlanVisible(t) ==
  /\ PlanRowsOf(t) = {}
  /\ \A i \in installments : i.plan_id # t

\* C29 as stated: no committed state holds a Plan with fewer than
\* installments_count Installments, and when save_plan fails at any step -
\* the flush, the commit or the refresh - neither the Plan nor any of its
\* Installments is visible in the store.
C29_PlanAtomicAnyStep ==
  /\ PlanWithAllInstallments
  /\ \A t \in Tasks :
       (Did(t, "save_plan_failed") \/ Did(t, "save_plan_refresh_failed"))
         => NoPlanVisible(t)

\* C29 amended: no committed state holds a Plan with fewer than
\* installments_count Installments; when save_plan fails at its flush or its
\* commit neither the Plan nor any Installment is visible, and when it fails
\* at the refresh after the commit the Plan and all its Installments are.
C29_PlanAtomicity ==
  /\ PlanWithAllInstallments
  /\ \A t \in Tasks :
       /\ Did(t, "save_plan_failed") => NoPlanVisible(t)
       /\ Did(t, "save_plan_refresh_failed") =>
            /\ PlanRowsOf(t) # {}
            /\ \A p \in PlanRowsOf(t) :
                 Cardinality(InstallmentsOf(p)) = installments_count

\* A save_plan that failed before its commit, beside a plan another request
\* committed.
C29_Witness ==
  \E t \in Tasks :
    /\ Did(t, "save_plan_failed")
    /\ Done(t)
    /\ \E p \in plans : Cardinality(InstallmentsOf(p)) = installments_count


\* ---- C30 ----
\* C30: dispatch stops at the first success.  A POST is issued for a
\* dispatch only while none of its attempts has received a 2xx, so a
\* dispatch gets at most one successful delivery; and the attempt that
\* receives the 2xx ends the dispatch with ok = true and attempts_consumed
\* equal to its own index.
C30_StopsAtFirstSuccess ==
  [][\A t \in Tasks :
       posts'[t].count > posts[t].count =>
         /\ ~posts[t].got_2xx
         /\ posts'[t].got_2xx =>
              /\ pc'[t] = "done"
              /\ webhook_result'[t] =
                   [success |-> TRUE, attempt_count |-> posts'[t].count]]_vars

\* Two failures and then a 2xx: ok = true with 3 attempts.
C30_Witness ==
  \E t \in Tasks :
    /\ Done(t)
    /\ posts[t] = [count |-> 3, got_2xx |-> TRUE]
    /\ webhook_result[t] = [success |-> TRUE, attempt_count |-> 3]

====
